---- MODULE Spec2Model ----
(***************************************************************************)
(* Model of tools/scrape-thediamondguy.mjs: the ring catalog scraper.      *)
(*                                                                         *)
(* JavaScript strings are sequences of one-character strings, so that      *)
(* split, trim, toLowerCase, the slug regular expressions and startsWith   *)
(* are computed character by character.  JavaScript values are tagged      *)
(* records (Undefined, Null, Str, Num, Arr, Obj).  A fetched page is the   *)
(* sequence of bodies of its application/ld+json script elements, each     *)
(* either malformed text or the JSON value it parses to.                   *)
(***************************************************************************)
EXTENDS Integers, Sequences, FiniteSets, TLC

VARIABLES
    pc,            \* position of main(): its await points and its two ends
    homeRes,       \* lines 38 and 94: the answer to the fetch of the site root
    productPages,  \* line 108: de-duplicated candidate URLs
    idx,           \* line 111: number of loop iterations completed
    product,       \* line 115: the Product item found by the last iteration
    ring,          \* line 117: what toRingCard returned in the last iteration
    caught,        \* line 119: the last iteration ended in the catch block
    products,      \* line 109: records collected so far
    rings,         \* line 124: the record sequence handed to writeFile
    file,          \* assets/data/rings.json
    writes,        \* number of completed fs.writeFile calls
    fetched,       \* URLs passed to fetch(), in order
    exitCode,      \* process.exitCode
    stderr,        \* console.error was called (line 138)
    stdout         \* console.log output (line 134): the count written, or -1

vars == <<pc, homeRes, productPages, idx, product, ring, caught, products,
          rings, file, writes, fetched, exitCode, stderr, stdout>>

----------------------------------------------------------------------------
(* Bounds of the model *)

\* longest generated name / url / sku string given to toRingCard in MapSpec
MaxLen == 3
\* records the product pages of one run may yield (the loop itself is not cut)
MaxProducts == 2
\* how many candidate URLs beyond the cap the longest listing carries
MaxExtra == 1

----------------------------------------------------------------------------
(* JavaScript values *)

Undefined == [t |-> "undefined"]
Null == [t |-> "null"]
Str(s) == [t |-> "str", s |-> s]
Num(n) == [t |-> "num", n |-> n]
Arr(a) == [t |-> "arr", a |-> a]
Obj(f) == [t |-> "obj", f |-> f]

\* ToBoolean: what `!x`, `x && y`, `x || y` and `a ? b : c` test
Truthy(x) ==
    CASE x.t = "str" -> x.s # <<>>
      [] x.t = "num" -> x.n # 0
      [] x.t \in {"arr", "obj"} -> TRUE
      [] OTHER -> FALSE

\* x?.[k] (and x[k] on an object): undefined unless x is an object with k
Get(x, k) == IF x.t = "obj" /\ k \in DOMAIN x.f THEN x.f[k] ELSE Undefined

\* x || y
Or(x, y) == IF Truthy(x) THEN x ELSE y

Digits == <<"0", "1", "2", "3", "4", "5", "6", "7", "8", "9">>

RECURSIVE NatToString(_)
NatToString(n) ==
    IF n < 10 THEN <<Digits[n + 1]>>
    ELSE NatToString(n \div 10) \o <<Digits[(n % 10) + 1]>>

\* String(x) for the strings and non-negative integers the model feeds it
StringOf(x) == IF x.t = "str" THEN x.s ELSE NatToString(x.n)

----------------------------------------------------------------------------
(* String methods and the regular expressions of toRingCard *)

Lower == <<"a", "b", "c", "d", "e", "f", "g", "h", "i", "j", "k", "l", "m",
           "n", "o", "p", "q", "r", "s", "t", "u", "v", "w", "x", "y", "z">>
Upper == <<"A", "B", "C", "D", "E", "F", "G", "H", "I", "J", "K", "L", "M",
           "N", "O", "P", "Q", "R", "S", "T", "U", "V", "W", "X", "Y", "Z">>

LowerChar(c) ==
    IF \E i \in 1..Len(Upper) : Upper[i] = c
    THEN Lower[CHOOSE i \in 1..Len(Upper) : Upper[i] = c]
    ELSE c

\* s.toLowerCase()
toLowerCase(s) == [i \in 1..Len(s) |-> LowerChar(s[i])]

\* the character class [a-z0-9]
IsAlnum(c) == (\E i \in 1..Len(Lower) : Lower[i] = c)
              \/ (\E i \in 1..Len(Digits) : Digits[i] = c)

\* s.trim()
RECURSIVE trimStart(_)
trimStart(s) == IF s # <<>> /\ Head(s) = " " THEN trimStart(Tail(s)) ELSE s

RECURSIVE trimEnd(_)
trimEnd(s) ==
    IF s # <<>> /\ s[Len(s)] = " " THEN trimEnd(SubSeq(s, 1, Len(s) - 1)) ELSE s

trim(s) == trimEnd(trimStart(s))

\* s.replace(/[^a-z0-9]+/g, '-'): every maximal run of other characters
\* becomes one hyphen
RECURSIVE replaceRuns(_)
replaceRuns(s) ==
    IF s = <<>> THEN <<>>
    ELSE IF IsAlnum(Head(s)) THEN <<Head(s)>> \o replaceRuns(Tail(s))
    ELSE IF Len(s) > 1 /\ ~IsAlnum(s[2]) THEN replaceRuns(Tail(s))
    ELSE <<"-">> \o replaceRuns(Tail(s))

\* s.replace(/(^-|-$)/g, ''): one hyphen off the front, then one off the end
\* of what is left
stripHyphens(s) ==
    LET a == IF s # <<>> /\ Head(s) = "-" THEN Tail(s) ELSE s
    IN  IF a # <<>> /\ a[Len(a)] = "-" THEN SubSeq(a, 1, Len(a) - 1) ELSE a

\* line 79
slugify(s) == stripHyphens(replaceRuns(toLowerCase(s)))

\* s.split('/').filter(Boolean): the non-empty slash-delimited segments
RECURSIVE segments(_, _)
segments(s, cur) ==
    IF s = <<>> THEN (IF cur = <<>> THEN <<>> ELSE <<cur>>)
    ELSE IF Head(s) = "/"
         THEN (IF cur = <<>> THEN <<>> ELSE <<cur>>) \o segments(Tail(s), <<>>)
         ELSE segments(Tail(s), Append(cur, Head(s)))

\* line 78: String(url).split('/').filter(Boolean).slice(-1)[0]
lastSegment(s) ==
    LET segs == segments(s, <<>>)
    IN  IF segs = <<>> THEN Undefined ELSE Str(segs[Len(segs)])

\* s.startsWith(p)
startsWith(s, p) == Len(s) >= Len(p) /\ SubSeq(s, 1, Len(p)) = p

----------------------------------------------------------------------------
(* Literals of the source *)

SITE == <<"h", "t", "t", "p", "s", ":", "/", "/", "w", "w", "w", ".", "t",
          "h", "e", "d", "i", "a", "m", "o", "n", "d", "g", "u", "y", ".",
          "c", "o", ".", "z", "a">>
HttpPrefix == <<"h", "t", "t", "p">>
ItemListType == Str(<<"I", "t", "e", "m", "L", "i", "s", "t">>)
ProductType == Str(<<"P", "r", "o", "d", "u", "c", "t">>)
Imported == Str(<<"I", "m", "p", "o", "r", "t", "e", "d">>)
Configurable == Str(<<"C", "o", "n", "f", "i", "g", "u", "r", "a", "b", "l", "e">>)

----------------------------------------------------------------------------
(* Pure functions of the source *)

\* an exception propagating out of a call
Thrown == [t |-> "throw"]

\* lines 21-23: a script body is malformed text, or text that parses to a value
Malformed == [t |-> "malformed"]
safeJsonParse(text) == IF text = Malformed THEN Null ELSE text

\* lines 25-35, the loop: `seen` is the set of keys already kept.  keyFn is
\* the key callback, as a function on the elements of the array
RECURSIVE uniqLoop(_, _, _, _)
uniqLoop(arr, keyFn, seen, out) ==
    IF arr = <<>> THEN out
    ELSE LET item == Head(arr)
             key == keyFn[item]
         IN  IF ~Truthy(key) \/ key \in seen
             THEN uniqLoop(Tail(arr), keyFn, seen, out)
             ELSE uniqLoop(Tail(arr), keyFn, seen \cup {key}, Append(out, item))

uniqBy(arr, keyFn) == uniqLoop(arr, keyFn, {}, <<>>)

Range(s) == {s[i] : i \in 1..Len(s)}
\* (u) => u, line 108
selfKey(arr) == [u \in Range(arr) |-> u]
\* (p) => p.id, line 125
idKey(arr) == [p \in Range(arr) |-> Get(p, "id")]

\* lines 43-54: one entry per script element whose body parses to a truthy value
RECURSIVE extractJsonLd(_)
extractJsonLd(html) ==
    IF html = <<>> THEN <<>>
    ELSE LET parsed == safeJsonParse(Head(html))
         IN  IF ~Truthy(parsed) THEN extractJsonLd(Tail(html))
             ELSE <<parsed>> \o extractJsonLd(Tail(html))

\* lines 59-66
RECURSIVE pushAny(_)
RECURSIVE pushEach(_)
pushAny(x) ==
    IF ~Truthy(x) THEN <<>>
    ELSE IF x.t = "arr" THEN pushEach(x.a)
    ELSE IF x.t = "obj"
         THEN (IF Truthy(Get(x, "@graph")) THEN pushAny(Get(x, "@graph")) ELSE <<>>)
              \o <<x>>
    ELSE <<>>
pushEach(a) == IF a = <<>> THEN <<>> ELSE pushAny(Head(a)) \o pushEach(Tail(a))

\* lines 56-69
normalizeToItems(jsonld) == pushAny(jsonld)

\* extractJsonLd(html).flatMap(normalizeToItems), lines 95 and 114
RECURSIVE flatMapNormalize(_)
flatMapNormalize(blocks) ==
    IF blocks = <<>> THEN <<>>
    ELSE normalizeToItems(Head(blocks)) \o flatMapNormalize(Tail(blocks))

\* items.find((x) => x?.['@type'] === type), lines 98 and 115
RECURSIVE findByType(_, _)
findByType(items, type) ==
    IF items = <<>> THEN Undefined
    ELSE IF Get(Head(items), "@type") = type THEN Head(items)
    ELSE findByType(Tail(items), type)

\* ringId with the URL segment tried before the sku
ringIdUrlFirst(prod, name) ==
    LET sku == Get(prod, "sku")
        url == Get(prod, "url")
        fromUrl == IF Truthy(url) THEN lastSegment(StringOf(url)) ELSE url
    IN  IF Truthy(fromUrl) THEN fromUrl
        ELSE IF Truthy(sku) THEN Str(StringOf(sku))
        ELSE IF name.t = "str" THEN Str(slugify(name.s))
        ELSE Thrown

\* lines 76-79: the id of a product whose name is `name`
ringId(prod, name) ==
    LET sku == Get(prod, "sku")
        url == Get(prod, "url")
        fromUrl == IF Truthy(url) THEN lastSegment(StringOf(url)) ELSE url
    IN  IF Truthy(sku) THEN Str(StringOf(sku))
        ELSE IF Truthy(fromUrl) THEN fromUrl
        ELSE IF name.t = "str" THEN Str(slugify(name.s))
        ELSE Thrown   \* name.toLowerCase is not a function

\* lines 71-90
toRingCard(prod) ==
    LET name == Or(Get(prod, "name"), Get(prod, "title"))
        url == Get(prod, "url")
        id == ringId(prod, name)
    IN  IF ~Truthy(name) THEN Null
        ELSE IF id = Thrown THEN Thrown
        ELSE Obj([id |-> id,
                  name |-> Str(trim(StringOf(name))),
                  tagline |-> Str(<<>>),
                  href |-> IF Truthy(url) THEN Str(StringOf(url)) ELSE Str(<<>>),
                  badge |-> Imported,
                  model |-> Num(1)])

\* lines 126-129
Placeholder ==
    << Obj([id |-> Str(<<"c", "l", "a", "s", "s", "i", "c", "-", "s", "o", "l",
                         "i", "t", "a", "i", "r", "e">>),
            name |-> Str(<<"C", "l", "a", "s", "s", "i", "c", " ", "S", "o",
                           "l", "i", "t", "a", "i", "r", "e">>),
            tagline |-> Str(<<"C", "l", "e", "a", "n", " ", "l", "i", "n", "e",
                              "s", ",", " ", "t", "i", "m", "e", "l", "e", "s",
                              "s", " ", "p", "r", "o", "f", "i", "l", "e">>),
            model |-> Num(1),
            badge |-> Configurable]),
       Obj([id |-> Str(<<"h", "a", "l", "o", "-", "e", "n", "s", "e", "m", "b",
                         "l", "e">>),
            name |-> Str(<<"H", "a", "l", "o", " ", "E", "n", "s", "e", "m",
                           "b", "l", "e">>),
            tagline |-> Str(<<"S", "o", "f", "t", " ", "s", "p", "a", "r", "k",
                              "l", "e", ",", " ", "e", "l", "e", "v", "a", "t",
                              "e", "d", " ", "p", "r", "e", "s", "e", "n", "c",
                              "e">>),
            model |-> Num(2),
            badge |-> Configurable]) >>

----------------------------------------------------------------------------
(* The driver's own steps *)

\* line 111: the hard cap on product pages
Cap == 60

Min(a, b) == IF a < b THEN a ELSE b

\* line 102: li?.url || li?.item?.url || li?.item
entryUrl(li) == Or(Or(Get(li, "url"), Get(Get(li, "item"), "url")), Get(li, "item"))

\* pushedUrl with a site-relative path pushed as it stands
pushedUrlUnresolved(u) ==
    IF u.t = "str" /\ (startsWith(u.s, HttpPrefix) \/ startsWith(u.s, <<"/">>))
    THEN u ELSE Undefined

\* lines 103-104: what one entry pushes onto urls (Undefined: nothing)
pushedUrl(u) ==
    IF u.t = "str" /\ startsWith(u.s, HttpPrefix) THEN u
    ELSE IF u.t = "str" /\ startsWith(u.s, <<"/">>) THEN Str(SITE \o u.s)
    ELSE Undefined

\* lines 100-105: the for loop over the entries, in order
collectUrls(listItems) ==
    LET pushed == [i \in 1..Len(listItems) |-> pushedUrl(entryUrl(listItems[i]))]
    IN  SelectSeq(pushed, LAMBDA u : u # Undefined)

\* lines 95-105: the candidate URLs of a homepage
listingUrls(html) ==
    LET jsonlds == flatMapNormalize(extractJsonLd(html))
        itemList == findByType(jsonlds, ItemListType)
        listItems == Or(Get(itemList, "itemListElement"), Arr(<<>>))
    IN  collectUrls(IF listItems.t = "arr" THEN listItems.a ELSE <<>>)

\* line 108
dedupUrls(urls) == uniqBy(urls, selfKey(urls))

\* pagesToFetch without the slice
pagesToFetchAll(pages) == pages

\* line 111: productPages.slice(0, 60)
pagesToFetch(pages) == SubSeq(pages, 1, Min(Len(pages), Cap))

\* lines 114-115: the Product item of a product page
findProduct(html) == findByType(flatMapNormalize(extractJsonLd(html)), ProductType)

\* finalRings without the placeholder branch
finalRingsNoFallback(prods) == uniqBy(prods, idKey(prods))

\* lines 124-129
finalRings(prods) ==
    IF Len(prods) # 0 THEN uniqBy(prods, idKey(prods)) ELSE Placeholder

----------------------------------------------------------------------------
(* The environment: what the site answers *)

\* fetchText throws: fetch() rejected, or the status was not ok (line 39)
NetworkError == [ok |-> FALSE, why |-> "network"]
BadStatus == [ok |-> FALSE, why |-> "status"]
Page(html) == [ok |-> TRUE, html |-> html]

RingsSolitaire == <<"/", "r", "i", "n", "g", "s", "/", "s", "o", "l", "i", "t",
                    "a", "i", "r", "e">>
SolitaireRing == <<"S", "o", "l", "i", "t", "a", "i", "r", "e", " ", "R", "i",
                   "n", "g">>
Sol1 == <<"S", "O", "L", "-", "1">>

ItemList(entries) ==
    Obj(("@type" :> ItemListType) @@ ("itemListElement" :> Arr(entries)))
Product(fields) == Obj(("@type" :> ProductType) @@ fields)
UrlEntry(u) == Obj([url |-> Str(u)])

\* "/" followed by k letters: distinct site-relative paths
FillerPath(k) == <<"/">> \o [i \in 1..k |-> "a"]
\* "http:" followed by the digits of k: distinct strings the listing loop
\* takes as absolute URLs (line 103 tests only the first four characters)
FillerUrl(k) == HttpPrefix \o <<":">> \o NatToString(k)
\* a listing of n distinct entries, the first one listed once more at the end
LongListing(n) ==
    ItemList([i \in 1..(n + 1) |-> UrlEntry(FillerUrl(IF i > n THEN 1 ELSE i))])

\* the only block is an ItemList with the one relative URL /rings/solitaire
ScenarioHomes ==
    { <<ItemList(<<UrlEntry(RingsSolitaire)>>)>>,
      <<ItemList(<<Obj([item |-> Str(RingsSolitaire)])>>)>>,
      <<ItemList(<<Obj([item |-> Obj([url |-> Str(RingsSolitaire)])])>>)>> }

HomePages ==
    ScenarioHomes \cup
    { <<>>,
      <<Malformed>>,
      <<Product([name |-> Str(SolitaireRing)])>>,
      <<Obj(("@type" :> ItemListType) @@ ("itemListElement" :> UrlEntry(RingsSolitaire)))>>,
      <<Obj(("@graph" :> Arr(<<
          ItemList(<< Obj([item |-> Obj([url |-> Str(SITE \o RingsSolitaire)])]),
                      Obj([item |-> Str(RingsSolitaire)]),
                      Str(RingsSolitaire),
                      Null,
                      Obj([url |-> Num(5)]),
                      UrlEntry(<<"r", "/", "x">>) >>) >>)))>>,
      <<Malformed,
        Arr(<<ItemList(<<UrlEntry(FillerPath(1)), UrlEntry(FillerPath(2)),
                         UrlEntry(FillerPath(1))>>)>>)>> }
    \cup { <<LongListing(n)>> : n \in {Cap, Cap + MaxExtra} }

HomeResponses == {NetworkError, BadStatus} \cup {Page(h) : h \in HomePages}

ProductPagesOk ==
    { <<Malformed, ItemList(<<>>)>>,
      <<Product([name |-> Str(SolitaireRing), sku |-> Str(Sol1)])>>,
      <<Product([name |-> Str(<<"B">>), sku |-> Str(Sol1),
                 url |-> Str(SITE \o RingsSolitaire)])>>,
      <<Obj(("@graph" :> Arr(<<Product([title |-> Str(<<"t", " ">>),
                                        url |-> Str(<<"/", "r", "/", "b", "/">>)])>>)))>>,
      <<Product([name |-> Str(<<"!", "!">>)])>>,
      <<Product([sku |-> Str(Sol1)])>>,
      <<Product([name |-> Num(7)])>> }

PageResponses == {NetworkError, BadStatus} \cup {Page(h) : h \in ProductPagesOk}

\* the characters of the generated strings: a lower-case letter, an
\* upper-case letter, a character outside [a-z0-9], a blank
NameChars == {"a", "B", "!", " "}
UrlChars == {"/", "a"}
StringsOver(chars, n) == UNION {[1..k -> chars] : k \in 0..n}

\* the candidate items given to toRingCard in MapSpec
Candidates ==
    { Product([f \in fields |-> [name |-> n, title |-> ti, url |-> u, sku |-> s][f]]) :
        <<n, ti, u, s, fields>> \in
          ({Num(0), Num(7)} \cup {Str(x) : x \in StringsOver(NameChars, MaxLen)})
          \X {Str(<<"t">>)}
          \X ({Num(7)} \cup {Str(x) : x \in StringsOver(UrlChars, MaxLen)})
          \X {Str(<<>>), Str(<<"S", "1">>), Num(0), Num(42)}
          \X {{"name", "url", "sku"}, {"name", "title", "url", "sku"},
              {"name", "sku"}, {"name", "url"}, {"name"}, {"title"}} }

----------------------------------------------------------------------------
(* The run of main() *)

\* whatever the output path held before the run
OldFile == [kind |-> "old"]

Init ==
    /\ pc = "FETCH_HOME"
    /\ homeRes = Undefined
    /\ productPages = <<>>
    /\ idx = 0
    /\ product = Undefined
    /\ ring = Undefined
    /\ caught = FALSE
    /\ products = <<>>
    /\ rings = <<>>
    /\ file = OldFile
    /\ writes = 0
    /\ fetched = <<>>
    /\ exitCode = 0
    /\ stderr = FALSE
    /\ stdout = -1

\* lines 137-140: the rejection of main() reaches the catch handler
Catch ==
    /\ pc' = "FAILED"
    /\ exitCode' = 1
    /\ stderr' = TRUE

\* FetchHome with a failed fetch taken as a page without structured data
FetchHomeSwallows ==
    /\ pc = "FETCH_HOME"
    /\ \E resp \in HomeResponses :
        /\ fetched' = Append(fetched, Str(SITE))
        /\ homeRes' = resp
        /\ productPages' = IF resp.ok THEN dedupUrls(listingUrls(resp.html)) ELSE <<>>
        /\ pc' = "FETCH_PRODUCT_PAGES"
    /\ UNCHANGED <<idx, product, ring, caught, products, rings, file, writes,
                   exitCode, stderr, stdout>>

\* lines 94-109: fetch the site root, extract the listing
FetchHome ==
    /\ pc = "FETCH_HOME"
    /\ \E resp \in HomeResponses :
        /\ fetched' = Append(fetched, Str(SITE))
        /\ IF resp.ok
           THEN /\ homeRes' = resp
                /\ productPages' = dedupUrls(listingUrls(resp.html))
                /\ pc' = "FETCH_PRODUCT_PAGES"
                /\ UNCHANGED <<exitCode, stderr>>
           ELSE /\ homeRes' = resp
                /\ Catch
                /\ UNCHANGED productPages
    /\ UNCHANGED <<idx, product, ring, caught, products, rings, file, writes, stdout>>

\* ProductPage without the try/catch: a failure of the page rejects main()
ProductPageNoCatch ==
    /\ pc = "FETCH_PRODUCT_PAGES"
    /\ idx < Len(pagesToFetch(productPages))
    /\ \E resp \in PageResponses :
        LET found == IF resp.ok THEN findProduct(resp.html) ELSE Undefined
            card == IF Truthy(found) THEN toRingCard(found) ELSE Undefined
            failed == ~resp.ok \/ card = Thrown
        IN  /\ Truthy(card) /\ card # Thrown => Len(products) < MaxProducts
            /\ product' = found
            /\ ring' = IF card = Thrown THEN Undefined ELSE card
            /\ caught' = FALSE
            /\ products' = IF Truthy(card) /\ card # Thrown
                           THEN Append(products, card) ELSE products
            /\ IF failed THEN Catch ELSE UNCHANGED <<pc, exitCode, stderr>>
    /\ fetched' = Append(fetched, pagesToFetch(productPages)[idx + 1])
    /\ idx' = idx + 1
    /\ UNCHANGED <<homeRes, productPages, rings, file, writes, stdout>>

\* lines 111-122: one iteration of the loop over the first Cap pages
ProductPage ==
    /\ pc = "FETCH_PRODUCT_PAGES"
    /\ idx < Len(pagesToFetch(productPages))
    /\ \E resp \in PageResponses :
        LET found == IF resp.ok THEN findProduct(resp.html) ELSE Undefined
            card == IF Truthy(found) THEN toRingCard(found) ELSE Undefined
        IN  /\ Truthy(card) /\ card # Thrown => Len(products) < MaxProducts
            /\ product' = found
            /\ ring' = IF card = Thrown THEN Undefined ELSE card
            /\ caught' = (~resp.ok \/ card = Thrown)
            /\ products' = IF Truthy(card) /\ card # Thrown
                           THEN Append(products, card) ELSE products
    /\ fetched' = Append(fetched, pagesToFetch(productPages)[idx + 1])
    /\ idx' = idx + 1
    /\ UNCHANGED <<pc, homeRes, productPages, rings, file, writes, exitCode,
                   stderr, stdout>>

\* lines 124-131: the loop is over; choose what to write
Deduplicate ==
    /\ pc = "FETCH_PRODUCT_PAGES"
    /\ idx = Len(pagesToFetch(productPages))
    /\ rings' = finalRings(products)
    /\ pc' = "WRITE_OUTPUT"
    /\ UNCHANGED <<homeRes, productPages, idx, product, ring, caught, products,
                   file, writes, fetched, exitCode, stderr, stdout>>

\* WriteOutput that leaves main() at the write, so that it writes again
WriteOutputAgain ==
    /\ pc = "WRITE_OUTPUT"
    /\ writes < 2
    /\ file' = [kind |-> "written", records |-> rings]
    /\ writes' = writes + 1
    /\ stdout' = Len(rings)
    /\ UNCHANGED <<pc, homeRes, productPages, idx, product, ring, caught,
                   products, rings, fetched, exitCode, stderr>>

\* lines 132-134: mkdir and writeFile succeed
WriteOutput ==
    /\ pc = "WRITE_OUTPUT"
    /\ file' = [kind |-> "written", records |-> rings]
    /\ writes' = writes + 1
    /\ stdout' = Len(rings)
    /\ pc' = "DONE"
    /\ UNCHANGED <<homeRes, productPages, idx, product, ring, caught, products,
                   rings, fetched, exitCode, stderr>>

\* lines 132-133: mkdir or writeFile rejects; nothing is written
WriteOutputFails ==
    /\ pc = "WRITE_OUTPUT"
    /\ Catch
    /\ UNCHANGED <<homeRes, productPages, idx, product, ring, caught, products,
                   rings, file, writes, fetched, stdout>>

Next == FetchHome \/ ProductPage \/ Deduplicate \/ WriteOutput \/ WriteOutputFails

Spec == Init /\ [][Next]_vars

----------------------------------------------------------------------------
(* toRingCard on its own: every candidate of Candidates is mapped once *)

MapInit ==
    /\ pc = "MAP"
    /\ product \in Candidates
    /\ ring = Undefined
    /\ caught = FALSE
    /\ homeRes = Undefined
    /\ productPages = <<>>
    /\ idx = 0
    /\ products = <<>>
    /\ rings = <<>>
    /\ file = OldFile
    /\ writes = 0
    /\ fetched = <<>>
    /\ exitCode = 0
    /\ stderr = FALSE
    /\ stdout = -1

MapCandidate ==
    /\ pc = "MAP"
    /\ LET card == toRingCard(product)
       IN  /\ ring' = IF card = Thrown THEN Undefined ELSE card
           /\ caught' = (card = Thrown)
    /\ pc' = "MAPPED"
    /\ UNCHANGED <<homeRes, productPages, idx, product, products, rings, file,
                   writes, fetched, exitCode, stderr, stdout>>

MapNext == MapCandidate

MapSpec == MapInit /\ [][MapNext]_vars

----------------------------------------------------------------------------
(* Properties *)

HomeOk == homeRes # Undefined /\ homeRes.ok
HomeFailed == homeRes # Undefined /\ ~homeRes.ok
Written == file.kind = "written"
Ended == pc \in {"DONE", "FAILED"}
IdOf(r) == Get(r, "id")
\* the product-page requests made so far
PageFetches == IF fetched = <<>> THEN <<>> ELSE Tail(fetched)

\* the elements of s without the later repetitions, in the order of s
FirstOccurrences(s) ==
    LET tagged == [i \in 1..Len(s) |-> <<i, s[i]>>]
        kept == SelectSeq(tagged, LAMBDA p : \A j \in 1..(p[1] - 1) : s[j] # p[2])
    IN  [k \in 1..Len(kept) |-> kept[k][2]]

ClassicSolitaireId ==
    Str(<<"c", "l", "a", "s", "s", "i", "c", "-", "s", "o", "l", "i", "t", "a",
          "i", "r", "e">>)
HaloEnsembleId ==
    Str(<<"h", "a", "l", "o", "-", "e", "n", "s", "e", "m", "b", "l", "e">>)

\* C1: never ship empty: whenever the output file has been written, it holds
\* at least one record.
C1_NeverShipEmpty == Written => Len(file.records) >= 1

\* C2: deduplication by id: the written output of a run that collected records
\* has no two records with the same id, and for each id among the collected
\* records it has exactly one record with that id, the first one collected.
C2_DedupById ==
    Written /\ Len(products) > 0 =>
        LET out == file.records
        IN  /\ \A i, j \in 1..Len(out) : i # j => IdOf(out[i]) # IdOf(out[j])
            /\ \A i \in 1..Len(products) :
                 LET first == CHOOSE j \in 1..Len(products) :
                                /\ IdOf(products[j]) = IdOf(products[i])
                                /\ \A k \in 1..(j - 1) :
                                     IdOf(products[k]) # IdOf(products[i])
                     same == {k \in 1..Len(out) : IdOf(out[k]) = IdOf(products[i])}
                 IN  /\ Cardinality(same) = 1
                     /\ \A k \in same : out[k] = products[first]

\* one step of the loop in which the catch block ran
PageFailureStep ==
    pc = "FETCH_PRODUCT_PAGES" /\ idx' = idx + 1 /\ caught'

\* what C3 says of single steps: a caught page failure adds no record, keeps
\* the records collected, and leaves main() in the loop with the next page, if
\* any, still to fetch; the loop is left only for the write, after the last
\* page within the cap; main() is rejected only by the homepage fetch or by
\* the write; DONE is a normal exit
C3_Step ==
    /\ PageFailureStep =>
         /\ products' = products
         /\ pc' = "FETCH_PRODUCT_PAGES"
         /\ exitCode' = exitCode /\ stderr' = stderr
         /\ fetched' = Append(fetched, productPages[idx + 1])
         /\ idx' <= Min(Len(productPages), Cap)
    /\ pc = "FETCH_PRODUCT_PAGES" /\ pc' # pc =>
         /\ pc' = "WRITE_OUTPUT"
         /\ Len(PageFetches) = Min(Len(productPages), Cap)
    /\ pc' = "FAILED" /\ pc # "FAILED" => pc \in {"FETCH_HOME", "WRITE_OUTPUT"}
    /\ pc' = "DONE" => exitCode' = 0 /\ ~stderr'

\* C3 as stated: a run whose last product page failed ends at DONE with a
\* normal exit.
C3_Original == Ended /\ caught => pc = "DONE" /\ exitCode = 0

\* C3, amended: a page failure is caught, adds no record, keeps the records
\* collected and does not stop the loop; the loop is left only after every
\* page within the cap was fetched, and only for WRITE_OUTPUT; the run then
\* ends at DONE with a normal exit unless the write itself fails, which
\* rejects main().
C3_Isolation == [][C3_Step]_vars

C3_Witness ==
    /\ pc = "DONE" /\ exitCode = 0
    /\ caught /\ idx >= 2 /\ Len(products) >= 1
    /\ Len(PageFetches) = idx

\* C4: a failed homepage fetch aborts the run: no product page is fetched,
\* the output file is not written and keeps what it held, the error is logged
\* and the exit status is non-zero.
C4_FatalHome ==
    HomeFailed =>
        /\ pc = "FAILED"
        /\ fetched = <<Str(SITE)>>
        /\ idx = 0
        /\ writes = 0 /\ file = OldFile
        /\ stderr /\ exitCode # 0

C4_Witness == homeRes = BadStatus /\ pc = "FAILED"

\* C5: a run makes at most Cap product-page fetches, and once the loop is
\* over the pages fetched are the first Cap (or all, if fewer) of the
\* candidate URLs of the ItemList without their repetitions, in listing order.
C5_Cap ==
    /\ Len(PageFetches) <= Cap
    /\ HomeOk /\ pc # "FETCH_PRODUCT_PAGES" =>
         LET candidates == FirstOccurrences(listingUrls(homeRes.html))
         IN  PageFetches = SubSeq(candidates, 1, Min(Len(candidates), Cap))

C5_Witness ==
    /\ pc = "DONE"
    /\ Len(FirstOccurrences(listingUrls(homeRes.html))) > Cap
    /\ Len(listingUrls(homeRes.html)) > Len(productPages)
    /\ Len(PageFetches) = Cap

\* the file has been written only at the end: every fetch of the run was made
\* and main() is over
WrittenAtEnd ==
    writes >= 1 =>
        /\ pc = "DONE"
        /\ Len(fetched) = 1 + Min(Len(productPages), Cap)

\* C6 as stated: the file is written at most once, only after every fetch of
\* the run, and every run whose homepage fetch succeeded has written it
\* exactly once when it ends.
C6_Original ==
    /\ writes <= 1
    /\ WrittenAtEnd
    /\ HomeOk /\ Ended => writes = 1

\* C6, amended: the file is written at most once, only after every fetch of
\* the run; a run that reaches DONE has written it exactly once, and a run
\* whose homepage fetch succeeded ends without a write only when the write
\* step itself failed, with a non-zero exit status.
C6_SingleWrite ==
    /\ writes <= 1
    /\ WrittenAtEnd
    /\ pc = "DONE" => writes = 1 /\ Written
    /\ pc = "FAILED" => writes = 0 /\ file = OldFile /\ exitCode # 0

C6_Witness == pc = "DONE" /\ writes = 1 /\ Len(fetched) >= 3

RecordFields == {"id", "name", "tagline", "href", "badge", "model"}

\* C7: every record of the written output has the fields id, name, tagline,
\* href, badge and model, the first five strings and model an integer.
C7_StableShape ==
    Written =>
        \A i \in 1..Len(file.records) :
            LET r == file.records[i]
            IN  /\ r.t = "obj"
                /\ DOMAIN r.f = RecordFields
                /\ \A k \in RecordFields \ {"model"} : r.f[k].t = "str"
                /\ r.f.model.t = "num"

\* C8: a written output is the two placeholder records, classic-solitaire then
\* halo-ensemble, exactly when the run collected no record.
C8_Fallback ==
    Written =>
        /\ Len(products) = 0 =>
             /\ file.records = Placeholder
             /\ [i \in 1..Len(file.records) |-> IdOf(file.records[i])]
                  = <<ClassicSolitaireId, HaloEnsembleId>>
        /\ file.records = Placeholder => Len(products) = 0

C8_Witness ==
    /\ Written /\ Len(products) = 0
    /\ idx >= 2 /\ caught
    /\ Len(file.records) = 2

\* the last non-empty slash-delimited segment of s, for s with a character
\* other than "/"
LastNonEmptySegment(s) ==
    LET last == CHOOSE j \in 1..Len(s) :
                  s[j] # "/" /\ \A k \in (j + 1)..Len(s) : s[k] = "/"
        first == CHOOSE i \in 1..last :
                   /\ \A k \in i..last : s[k] # "/"
                   /\ i = 1 \/ s[i - 1] = "/"
    IN  SubSeq(s, first, last)
HasSegment(s) == \E j \in 1..Len(s) : s[j] # "/"

MappedName == Or(Get(product, "name"), Get(product, "title"))
MappedSku == Get(product, "sku")
MappedUrl == Get(product, "url")

\* C9 as stated: a candidate with a usable name (a non-empty string) is
\* mapped to a record whose id is the stringified sku when it carries a sku,
\* else the last non-empty slash-delimited segment of its url when it carries
\* a url, else the slugified name.
C9_Original ==
    pc = "MAPPED" /\ Truthy(MappedName) /\ MappedName.t = "str" =>
        /\ ring.t = "obj"
        /\ IF Truthy(MappedSku) THEN IdOf(ring) = Str(StringOf(MappedSku))
           ELSE IF Truthy(MappedUrl)
           THEN /\ HasSegment(StringOf(MappedUrl))
                /\ IdOf(ring) = Str(LastNonEmptySegment(StringOf(MappedUrl)))
           ELSE IdOf(ring) = Str(slugify(MappedName.s))

\* C9, amended: for a candidate with a usable name, the id is the stringified
\* sku when the sku is truthy (not absent, "" or 0), and never the URL-derived
\* value; else the last non-empty segment of the url when the url is truthy
\* and has such a segment; else the slugified name when the name is a string;
\* a name that is not a string then makes the mapping throw, and no record is
\* produced.
C9_Precedence ==
    pc = "MAPPED" /\ Truthy(MappedName) =>
        IF Truthy(MappedSku)
        THEN ring.t = "obj" /\ IdOf(ring) = Str(StringOf(MappedSku))
        ELSE IF Truthy(MappedUrl) /\ HasSegment(StringOf(MappedUrl))
        THEN /\ ring.t = "obj"
             /\ IdOf(ring) = Str(LastNonEmptySegment(StringOf(MappedUrl)))
        ELSE IF MappedName.t = "str"
        THEN ring.t = "obj" /\ IdOf(ring) = Str(slugify(MappedName.s))
        ELSE ring = Undefined /\ caught

C9_Witness ==
    /\ pc = "MAPPED" /\ Truthy(MappedName)
    /\ Truthy(MappedSku)
    /\ Truthy(MappedUrl) /\ HasSegment(StringOf(MappedUrl))
    /\ IdOf(ring) = Str(StringOf(MappedSku))
    /\ IdOf(ring) # Str(LastNonEmptySegment(StringOf(MappedUrl)))

\* the run of the end-to-end scenario: the homepage's only block is an
\* ItemList with the one relative URL, the page fetched for it marks the
\* Product named "Solitaire Ring" with sku "SOL-1", and the file is written
Scenario ==
    /\ HomeOk /\ homeRes.html \in ScenarioHomes
    /\ idx = 1
    /\ product = Product([name |-> Str(SolitaireRing), sku |-> Str(Sol1)])
    /\ Written

ScenarioRecord(href) ==
    Obj([id |-> Str(Sol1), name |-> Str(SolitaireRing), tagline |-> Str(<<>>),
         href |-> Str(href), badge |-> Imported, model |-> Num(1)])

\* C10 as stated: in the scenario the relative URL is resolved against the
\* site root and fetched, and the output is the one record with id "SOL-1",
\* name "Solitaire Ring", tagline "", href the site root followed by
\* /rings/solitaire, badge "Imported" and model 1.
C10_Original ==
    Scenario =>
        /\ PageFetches = <<Str(SITE \o RingsSolitaire)>>
        /\ file.records = <<ScenarioRecord(SITE \o RingsSolitaire)>>

\* C10, amended: as stated, but with href "": href is copied from the
\* Product's own url field, which the scenario's Product does not carry, and
\* not from the address the page was fetched from.
C10_Scenario ==
    Scenario =>
        /\ PageFetches = <<Str(SITE \o RingsSolitaire)>>
        /\ file.records = <<ScenarioRecord(<<>>)>>

C10_Witness == Scenario /\ pc = "DONE" /\ Len(file.records) = 1

====
